---- MODULE Spec2Model ----
(***************************************************************************)
(* Engine selection for scrapeURL: the static engine and feature-flag      *)
(* tables of engines/index.ts and buildFallbackList, which ranks the       *)
(* engines of one request.                                                 *)
(***************************************************************************)
EXTENDS Integers, Sequences, FiniteSets, TLC

(***************************************************************************)
(* Bounds of the model.                                                    *)
(***************************************************************************)

\* A request sets at most this many optional parts: each requested feature
\* flag, each entry of forceEngine, each option that differs from its
\* default, and a mock each count as one part.
MaxRequestParts == 2

\* buildFallbackList is called at most this many times in a row by the
\* specification of repeated calls.
MaxCalls == 3

\* The execution driver is followed over ranked lists of at most this many
\* candidates.
MaxCandidates == 3

\* The action lists of the requests to the microservice have at most this many
\* actions.
MaxActions == 2

\* chromium.launch is called at most this many times in one run of the server.
MaxLaunches == 3

\* SIGINT is delivered at most this many times in one run of the server.
MaxSignals == 2

(***************************************************************************)
(* Static tables.                                                          *)
(***************************************************************************)

\* type Engine
Engine ==
  { "fire-engine;chrome-cdp",
    "fire-engine(retry);chrome-cdp",
    "fire-engine;chrome-cdp;stealth",
    "fire-engine(retry);chrome-cdp;stealth",
    "fire-engine;playwright",
    "fire-engine;playwright;stealth",
    "fire-engine;tlsclient",
    "fire-engine;tlsclient;stealth",
    "playwright",
    "fetch",
    "pdf",
    "docx",
    "index",
    "index;documents" }

\* const featureFlags, in declaration order
featureFlags ==
  << "actions",
     "waitFor",
     "screenshot",
     "screenshot@fullScreen",
     "pdf",
     "docx",
     "atsv",
     "location",
     "mobile",
     "skipTlsVerification",
     "useFastMode",
     "stealthProxy",
     "disableAdblock" >>

\* type FeatureFlag
FeatureFlag == { featureFlags[i] : i \in 1..Len(featureFlags) }

\* const featureFlagOptions: the priority of each flag
featureFlagOptions ==
     "actions" :> [priority |-> 20]
  @@ "waitFor" :> [priority |-> 1]
  @@ "screenshot" :> [priority |-> 10]
  @@ "screenshot@fullScreen" :> [priority |-> 10]
  @@ "pdf" :> [priority |-> 100]
  @@ "docx" :> [priority |-> 100]
  @@ "atsv" :> [priority |-> 90]
  @@ "useFastMode" :> [priority |-> 90]
  @@ "location" :> [priority |-> 10]
  @@ "mobile" :> [priority |-> 10]
  @@ "skipTlsVerification" :> [priority |-> 10]
  @@ "stealthProxy" :> [priority |-> 20]
  @@ "disableAdblock" :> [priority |-> 10]

\* const engineOptions: the support matrix and the quality of each engine
engineOptions ==
     "index" :> [
       features |-> (
            "actions" :> FALSE
         @@ "waitFor" :> TRUE
         @@ "screenshot" :> TRUE
         @@ "screenshot@fullScreen" :> TRUE
         @@ "pdf" :> FALSE
         @@ "docx" :> FALSE
         @@ "atsv" :> FALSE
         @@ "mobile" :> TRUE
         @@ "location" :> TRUE
         @@ "skipTlsVerification" :> TRUE
         @@ "useFastMode" :> TRUE
         @@ "stealthProxy" :> FALSE
         @@ "disableAdblock" :> TRUE
       ),
       quality |-> 1000
     ]
  @@ "fire-engine;chrome-cdp" :> [
       features |-> (
            "actions" :> TRUE
         @@ "waitFor" :> TRUE
         @@ "screenshot" :> TRUE
         @@ "screenshot@fullScreen" :> TRUE
         @@ "pdf" :> FALSE
         @@ "docx" :> FALSE
         @@ "atsv" :> FALSE
         @@ "location" :> TRUE
         @@ "mobile" :> TRUE
         @@ "skipTlsVerification" :> TRUE
         @@ "useFastMode" :> FALSE
         @@ "stealthProxy" :> FALSE
         @@ "disableAdblock" :> FALSE
       ),
       quality |-> 50
     ]
  @@ "fire-engine(retry);chrome-cdp" :> [
       features |-> (
            "actions" :> TRUE
         @@ "waitFor" :> TRUE
         @@ "screenshot" :> TRUE
         @@ "screenshot@fullScreen" :> TRUE
         @@ "pdf" :> FALSE
         @@ "docx" :> FALSE
         @@ "atsv" :> FALSE
         @@ "location" :> TRUE
         @@ "mobile" :> TRUE
         @@ "skipTlsVerification" :> TRUE
         @@ "useFastMode" :> FALSE
         @@ "stealthProxy" :> FALSE
         @@ "disableAdblock" :> FALSE
       ),
       quality |-> 45
     ]
  @@ "index;documents" :> [
       features |-> (
            "actions" :> FALSE
         @@ "waitFor" :> TRUE
         @@ "screenshot" :> TRUE
         @@ "screenshot@fullScreen" :> TRUE
         @@ "pdf" :> TRUE
         @@ "docx" :> TRUE
         @@ "atsv" :> FALSE
         @@ "location" :> TRUE
         @@ "mobile" :> TRUE
         @@ "skipTlsVerification" :> TRUE
         @@ "useFastMode" :> TRUE
         @@ "stealthProxy" :> FALSE
         @@ "disableAdblock" :> FALSE
       ),
       quality |-> -1
     ]
  @@ "fire-engine;chrome-cdp;stealth" :> [
       features |-> (
            "actions" :> TRUE
         @@ "waitFor" :> TRUE
         @@ "screenshot" :> TRUE
         @@ "screenshot@fullScreen" :> TRUE
         @@ "pdf" :> FALSE
         @@ "docx" :> FALSE
         @@ "atsv" :> FALSE
         @@ "location" :> TRUE
         @@ "mobile" :> TRUE
         @@ "skipTlsVerification" :> TRUE
         @@ "useFastMode" :> FALSE
         @@ "stealthProxy" :> TRUE
         @@ "disableAdblock" :> FALSE
       ),
       quality |-> -2
     ]
  @@ "fire-engine(retry);chrome-cdp;stealth" :> [
       features |-> (
            "actions" :> TRUE
         @@ "waitFor" :> TRUE
         @@ "screenshot" :> TRUE
         @@ "screenshot@fullScreen" :> TRUE
         @@ "pdf" :> FALSE
         @@ "docx" :> FALSE
         @@ "atsv" :> FALSE
         @@ "location" :> TRUE
         @@ "mobile" :> TRUE
         @@ "skipTlsVerification" :> TRUE
         @@ "useFastMode" :> FALSE
         @@ "stealthProxy" :> TRUE
         @@ "disableAdblock" :> FALSE
       ),
       quality |-> -5
     ]
  @@ "fire-engine;playwright" :> [
       features |-> (
            "actions" :> FALSE
         @@ "waitFor" :> TRUE
         @@ "screenshot" :> TRUE
         @@ "screenshot@fullScreen" :> TRUE
         @@ "pdf" :> FALSE
         @@ "docx" :> FALSE
         @@ "atsv" :> FALSE
         @@ "location" :> FALSE
         @@ "mobile" :> FALSE
         @@ "skipTlsVerification" :> FALSE
         @@ "useFastMode" :> FALSE
         @@ "stealthProxy" :> FALSE
         @@ "disableAdblock" :> TRUE
       ),
       quality |-> 40
     ]
  @@ "fire-engine;playwright;stealth" :> [
       features |-> (
            "actions" :> FALSE
         @@ "waitFor" :> TRUE
         @@ "screenshot" :> TRUE
         @@ "screenshot@fullScreen" :> TRUE
         @@ "pdf" :> FALSE
         @@ "docx" :> FALSE
         @@ "atsv" :> FALSE
         @@ "location" :> FALSE
         @@ "mobile" :> FALSE
         @@ "skipTlsVerification" :> FALSE
         @@ "useFastMode" :> FALSE
         @@ "stealthProxy" :> TRUE
         @@ "disableAdblock" :> TRUE
       ),
       quality |-> -10
     ]
  @@ "playwright" :> [
       features |-> (
            "actions" :> TRUE
         @@ "waitFor" :> TRUE
         @@ "screenshot" :> TRUE
         @@ "screenshot@fullScreen" :> TRUE
         @@ "pdf" :> FALSE
         @@ "docx" :> FALSE
         @@ "atsv" :> FALSE
         @@ "location" :> FALSE
         @@ "mobile" :> FALSE
         @@ "skipTlsVerification" :> TRUE
         @@ "useFastMode" :> FALSE
         @@ "stealthProxy" :> FALSE
         @@ "disableAdblock" :> FALSE
       ),
       quality |-> 20
     ]
  @@ "fire-engine;tlsclient" :> [
       features |-> (
            "actions" :> FALSE
         @@ "waitFor" :> FALSE
         @@ "screenshot" :> FALSE
         @@ "screenshot@fullScreen" :> FALSE
         @@ "pdf" :> FALSE
         @@ "docx" :> FALSE
         @@ "atsv" :> TRUE
         @@ "location" :> TRUE
         @@ "mobile" :> FALSE
         @@ "skipTlsVerification" :> TRUE
         @@ "useFastMode" :> TRUE
         @@ "stealthProxy" :> FALSE
         @@ "disableAdblock" :> FALSE
       ),
       quality |-> 10
     ]
  @@ "fire-engine;tlsclient;stealth" :> [
       features |-> (
            "actions" :> FALSE
         @@ "waitFor" :> FALSE
         @@ "screenshot" :> FALSE
         @@ "screenshot@fullScreen" :> FALSE
         @@ "pdf" :> FALSE
         @@ "docx" :> FALSE
         @@ "atsv" :> TRUE
         @@ "location" :> TRUE
         @@ "mobile" :> FALSE
         @@ "skipTlsVerification" :> TRUE
         @@ "useFastMode" :> TRUE
         @@ "stealthProxy" :> TRUE
         @@ "disableAdblock" :> FALSE
       ),
       quality |-> -15
     ]
  @@ "fetch" :> [
       features |-> (
            "actions" :> FALSE
         @@ "waitFor" :> FALSE
         @@ "screenshot" :> FALSE
         @@ "screenshot@fullScreen" :> FALSE
         @@ "pdf" :> FALSE
         @@ "docx" :> FALSE
         @@ "atsv" :> FALSE
         @@ "location" :> FALSE
         @@ "mobile" :> FALSE
         @@ "skipTlsVerification" :> TRUE
         @@ "useFastMode" :> TRUE
         @@ "stealthProxy" :> FALSE
         @@ "disableAdblock" :> FALSE
       ),
       quality |-> 5
     ]
  @@ "pdf" :> [
       features |-> (
            "actions" :> FALSE
         @@ "waitFor" :> FALSE
         @@ "screenshot" :> FALSE
         @@ "screenshot@fullScreen" :> FALSE
         @@ "pdf" :> TRUE
         @@ "docx" :> FALSE
         @@ "atsv" :> FALSE
         @@ "location" :> FALSE
         @@ "mobile" :> FALSE
         @@ "skipTlsVerification" :> FALSE
         @@ "useFastMode" :> TRUE
         @@ "stealthProxy" :> TRUE
         @@ "disableAdblock" :> TRUE
       ),
       quality |-> -20
     ]
  @@ "docx" :> [
       features |-> (
            "actions" :> FALSE
         @@ "waitFor" :> FALSE
         @@ "screenshot" :> FALSE
         @@ "screenshot@fullScreen" :> FALSE
         @@ "pdf" :> FALSE
         @@ "docx" :> TRUE
         @@ "atsv" :> FALSE
         @@ "location" :> FALSE
         @@ "mobile" :> FALSE
         @@ "skipTlsVerification" :> FALSE
         @@ "useFastMode" :> TRUE
         @@ "stealthProxy" :> TRUE
         @@ "disableAdblock" :> TRUE
       ),
       quality |-> -20
     ]

\* const engines: the engines available to this process, built once from the
\* environment
EnginesOf(idx, fire, pw) ==
     (IF idx THEN << "index", "index;documents" >> ELSE << >>)
  \o (IF fire
        THEN << "fire-engine;chrome-cdp",
                "fire-engine;chrome-cdp;stealth",
                "fire-engine(retry);chrome-cdp",
                "fire-engine(retry);chrome-cdp;stealth",
                "fire-engine;playwright",
                "fire-engine;playwright;stealth",
                "fire-engine;tlsclient",
                "fire-engine;tlsclient;stealth" >>
        ELSE << >>)
  \o (IF pw THEN << "playwright" >> ELSE << >>)
  \o << "fetch", "pdf", "docx" >>

\* the fire-engine entries buildFallbackList adds when a mock is supplied
MockEngines ==
  << "fire-engine;chrome-cdp",
     "fire-engine(retry);chrome-cdp",
     "fire-engine;chrome-cdp;stealth",
     "fire-engine(retry);chrome-cdp;stealth",
     "fire-engine;playwright" >>

(***************************************************************************)
(* State.                                                                  *)
(***************************************************************************)

VARIABLES
  useIndex,        \* services: the index is configured
  useFireEngine,   \* FIRE_ENGINE_BETA_URL is set and not empty
  usePlaywright,   \* PLAYWRIGHT_MICROSERVICE_URL is set and not empty
  indexWriteOnly,  \* FIRECRAWL_INDEX_WRITE_ONLY === "true"
  engines,         \* the module-level list of available engines
  request,         \* the Meta the caller handed to buildFallbackList
  meta,            \* that Meta object after the call
  selectedEngines, \* the list the call returned
  calls,           \* the calls made so far: request and returned list of each
  pc               \* "idle" before the first call, "ranked" after a call

rankVars ==
  << useIndex, useFireEngine, usePlaywright, indexWriteOnly, engines, request,
     meta, selectedEngines, calls, pc >>

(***************************************************************************)
(* Array and Set helpers of the language runtime.                          *)
(***************************************************************************)

\* Array.prototype.indexOf: the first position of x (1-based), 0 when absent
\* (the code's -1)
IndexOf(arr, x) ==
  IF \E i \in 1..Len(arr) : arr[i] = x
    THEN CHOOSE i \in 1..Len(arr) :
           arr[i] = x /\ \A j \in 1..(i - 1) : arr[j] # x
    ELSE 0

\* Array.prototype.splice(i, 1)
Splice1(arr, i) ==
  [j \in 1..(Len(arr) - 1) |-> IF j < i THEN arr[j] ELSE arr[j + 1]]

\* [...flags].reduce((a, x) => a + featureFlagOptions[x].priority, 0)
RECURSIVE SumPriority(_)
SumPriority(flags) ==
  IF flags = {} THEN 0
  ELSE LET x == CHOOSE f \in flags : TRUE
       IN  featureFlagOptions[x].priority + SumPriority(flags \ {x})

\* mutant: the comparator without its tie-break on quality
CompareEngines_ScoreOnly(a, b) ==
  b.supportScore - a.supportScore

\* mutant: the comparator with the tie-break on quality reversed
CompareEngines_AscendingQuality(a, b) ==
  IF b.supportScore - a.supportScore # 0
    THEN b.supportScore - a.supportScore
    ELSE engineOptions[a.engine].quality - engineOptions[b.engine].quality

\* the comparator handed to selectedEngines.sort
CompareEngines(a, b) ==
  IF b.supportScore - a.supportScore # 0
    THEN b.supportScore - a.supportScore
    ELSE engineOptions[b.engine].quality - engineOptions[a.engine].quality

\* selectedEngines.sort(CompareEngines): Array.prototype.sort is stable; x is
\* placed behind every element it does not have to precede
RECURSIVE InsertSorted(_, _)
InsertSorted(sorted, x) ==
  IF sorted = << >> THEN << x >>
  ELSE IF CompareEngines(Head(sorted), x) > 0
         THEN << x >> \o sorted
         ELSE << Head(sorted) >> \o InsertSorted(Tail(sorted), x)

RECURSIVE Sort(_)
Sort(arr) ==
  IF arr = << >> THEN << >>
  ELSE InsertSorted(Sort(SubSeq(arr, 1, Len(arr) - 1)), arr[Len(arr)])

(***************************************************************************)
(* buildFallbackList.                                                      *)
(***************************************************************************)

\* mutant: the mock fire-engine entries are added to every request
WithMockEngines_Always(engs, fire, m) ==
  engs \o MockEngines

\* const _engines = [...engines, ...(mock fire-engine entries)]
WithMockEngines(engs, fire, m) ==
  engs \o (IF ~fire /\ m.mock # "null" THEN MockEngines ELSE << >>)

\* mutant: the request is not looked at
ShouldUseIndex_EnvironmentOnly(idx, writeOnly, m) == idx /\ ~writeOnly

\* const shouldUseIndex
ShouldUseIndex(idx, writeOnly, m) ==
  /\ idx
  /\ ~writeOnly
  /\ m.options.waitFor = 0
  /\ "changeTracking" \notin m.options.formats
  /\ m.options.pdfMaxPages = << >>
  /\ m.options.maxAge # 0
  /\ (m.options.headers = << >> \/ Cardinality(m.options.headers[1]) = 0)
  /\ (m.options.actions = << >> \/ Len(m.options.actions[1]) = 0)
  /\ m.options.proxy # "stealth"

\* if (!shouldUseIndex) { splice "index" and "index;documents" out }
RemoveEngine(arr, e) ==
  IF IndexOf(arr, e) # 0 THEN Splice1(arr, IndexOf(arr, e)) ELSE arr

WithoutIndex(arr, should) ==
  IF ~should THEN RemoveEngine(RemoveEngine(arr, "index"), "index;documents")
  ELSE arr

\* mutant: _engines is the module-level list itself, not a copy of it
ModuleEnginesAfter_Shared(engs, should) ==
  WithoutIndex(engs, should)

\* const _engines = [...engines, ...]: the splices act on a copy, the
\* module-level list is as it was
ModuleEnginesAfter(engs, should) ==
  engs

\* const currentEngines
CurrentEngines(m, engs) ==
  IF m.forceEngine.kind # "undefined" THEN m.forceEngine.value ELSE engs

\* mutant: the threshold is half the number of flags, not of their priorities
PriorityThreshold_ByCount(m) == Cardinality(m.featureFlags) \div 2

\* const prioritySum and const priorityThreshold
PrioritySum(m) == SumPriority(m.featureFlags)

PriorityThreshold(m) == PrioritySum(m) \div 2

\* mutant: every flag the engine supports counts, requested or not
SupportedFlags_Unrequested(m, engine) ==
  { k \in DOMAIN engineOptions[engine].features :
      engineOptions[engine].features[k] = TRUE }

\* mutant: no supported flag is deleted from unsupportedFeatures
UnsupportedFeatures_NoDelete(m, supportedFlags) ==
  m.featureFlags

\* the body of the loop over currentEngines: the candidate of one engine
SupportedFlags(m, engine) ==
  { k \in DOMAIN engineOptions[engine].features :
      k \in m.featureFlags /\ engineOptions[engine].features[k] = TRUE }

UnsupportedFeatures(m, supportedFlags) ==
  { flag \in m.featureFlags : flag \notin supportedFlags }

Candidate(m, engine) ==
  LET supportedFlags == SupportedFlags(m, engine)
  IN  [ engine |-> engine,
        supportScore |-> SumPriority(supportedFlags),
        unsupportedFeatures |-> UnsupportedFeatures(m, supportedFlags) ]

\* mutant: every candidate is pushed
MeetsThreshold_Always(m, c, priorityThreshold) ==
  c.supportScore >= 0

\* mutant: a forced engine is pushed whatever its score
MeetsThreshold_ForcedBypass(m, c, priorityThreshold) ==
  m.forceEngine.kind # "undefined" \/ c.supportScore >= priorityThreshold

\* mutant: unsupportedFeatures is meta.featureFlags itself, so the deletes of
\* the last engine of the loop remain in it
FeatureFlagsAfter_Shared(m, last) ==
  UnsupportedFeatures(m, SupportedFlags(m, last))

\* const unsupportedFeatures = new Set([...meta.featureFlags]): the deletes act
\* on a copy, meta.featureFlags is as it was
FeatureFlagsAfter(m, last) ==
  m.featureFlags

\* if (supportScore >= priorityThreshold) selectedEngines.push(...)
MeetsThreshold(m, c, priorityThreshold) ==
  c.supportScore >= priorityThreshold

\* x => engineOptions[x.engine].quality > 0
PositiveQuality(c) == engineOptions[c.engine].quality > 0

\* mutant: engines of quality <= 0 are never dropped
DropNonPositive_Never(sel) ==
  sel

\* if (selectedEngines.some(quality > 0)) keep only those
DropNonPositive(sel) ==
  IF \E i \in 1..Len(sel) : PositiveQuality(sel[i])
    THEN SelectSeq(sel, PositiveQuality)
    ELSE sel

\* mutant: the list is sorted even when forceEngine is given
SortUnlessForced_Always(m, sel) ==
  Sort(sel)

\* if (forceEngine === undefined) selectedEngines.sort(...)
SortUnlessForced(m, sel) ==
  IF m.forceEngine.kind = "undefined" THEN Sort(sel) ELSE sel

buildFallbackList(m, engs, idx, fire, writeOnly) ==
  LET engines_ ==
        WithoutIndex(WithMockEngines(engs, fire, m),
                     ShouldUseIndex(idx, writeOnly, m))
      currentEngines == CurrentEngines(m, engines_)
      candidates ==
        [i \in 1..Len(currentEngines) |-> Candidate(m, currentEngines[i])]
      priorityThreshold == PriorityThreshold(m)
      meets(c) == MeetsThreshold(m, c, priorityThreshold)
  IN  SortUnlessForced(m, DropNonPositive(SelectSeq(candidates, meets)))

(***************************************************************************)
(* Requests.                                                               *)
(***************************************************************************)

\* meta.url of the requests of the model; meta.rewrittenUrl is not set
RequestUrl == "https://example.com/"

\* meta.options of a request that sets nothing
DefaultOptions ==
  [ waitFor     |-> 0,
    formats     |-> { "markdown" },
    pdfMaxPages |-> << >>,
    maxAge      |-> 172800000,
    headers     |-> << >>,
    actions     |-> << >>,
    proxy       |-> "basic",
    skipTlsVerification |-> FALSE,
    location    |-> << >> ]

\* The options a request sets beside those its feature flags stand for.  An
\* optional value is << >> (undefined) or << v >>.
FreeOptions ==
  [ formats     : { { "markdown" }, { "markdown", "changeTracking" } },
    pdfMaxPages : { << >>, << 1 >> },
    maxAge      : { 0, 172800000 },
    headers     : { << >>, << {} >>, << { "Cookie" } >> },
    actions     : { << >>, << << >> >> } ]

DefaultFreeOptions ==
  [ formats     |-> DefaultOptions.formats,
    pdfMaxPages |-> DefaultOptions.pdfMaxPages,
    maxAge      |-> DefaultOptions.maxAge,
    headers     |-> DefaultOptions.headers,
    actions     |-> DefaultOptions.actions ]

OptionParts(o) ==
  Cardinality({ k \in DOMAIN o : o[k] # DefaultOptions[k] })

\* The options of a request that has the feature flags fl.  The flags of a
\* request are derived from its options: waitFor from a wait time other than
\* 0, actions from a non-empty action list, stealthProxy from the stealth
\* proxy tier, screenshot from a screenshot format, skipTlsVerification and
\* location from the options of these names.
OptionsOf(fl, free) ==
  [ waitFor     |-> IF "waitFor" \in fl THEN 1000 ELSE 0,
    formats     |-> free.formats \cup
                    (IF "screenshot" \in fl THEN { "screenshot" } ELSE {}),
    pdfMaxPages |-> free.pdfMaxPages,
    maxAge      |-> free.maxAge,
    headers     |-> free.headers,
    actions     |-> IF "actions" \in fl THEN << << "click" >> >>
                    ELSE free.actions,
    proxy       |-> IF "stealthProxy" \in fl THEN "stealth" ELSE "basic",
    skipTlsVerification |-> "skipTlsVerification" \in fl,
    location    |-> IF "location" \in fl THEN << "US" >> ELSE << >> ]

\* meta.internalOptions.forceEngine: undefined, one engine, or an array
AllForceEngines ==
       { [kind |-> "undefined", value |-> << >>] }
  \cup { [kind |-> "single", value |-> << e >>] : e \in Engine }
  \cup { [kind |-> "array", value |-> a] :
           a \in UNION { [1..n -> Engine] : n \in 0..MaxRequestParts } }

ForceParts(f) ==
  IF f.kind = "undefined" THEN 0
  ELSE IF Len(f.value) = 0 THEN 1 ELSE Len(f.value)

\* meta.mock: null or a mock
AllMocks == { "null", "mock" }

MockParts(k) == IF k = "null" THEN 0 ELSE 1

ForceEnginesUpTo ==
  [ n \in 0..MaxRequestParts |->
      { f \in AllForceEngines : ForceParts(f) <= n } ]

FreeOptionsUpTo ==
  [ n \in 0..MaxRequestParts |->
      { o \in FreeOptions : OptionParts(o) <= n } ]

\* a request of the feature flags fl and of at most n parts beside them
RequestsOf(fl, n) ==
  UNION { UNION {
    { [ url |-> RequestUrl, rewrittenUrl |-> << >>,
        featureFlags |-> fl, forceEngine |-> fo, mock |-> mk,
        options |-> OptionsOf(fl, free) ] :
        free \in FreeOptionsUpTo[n - ForceParts(fo) - MockParts(mk)] } :
      mk \in { k \in AllMocks : MockParts(k) <= n - ForceParts(fo) } } :
      fo \in ForceEnginesUpTo[n] }

\* every request of at most MaxRequestParts parts
BoundedRequests ==
  UNION { RequestsOf(fl, MaxRequestParts - Cardinality(fl)) :
            fl \in { x \in SUBSET FeatureFlag :
                       Cardinality(x) <= MaxRequestParts } }

\* every request that sets nothing but feature flags: all subsets of the flags
FlagOnlyRequests ==
  UNION { RequestsOf(fl, 0) : fl \in SUBSET FeatureFlag }

\* the Meta values of the model
Requests == BoundedRequests \cup FlagOnlyRequests

(***************************************************************************)
(* Specification.                                                          *)
(***************************************************************************)

DefaultMeta ==
  [ url |-> RequestUrl,
    rewrittenUrl |-> << >>,
    featureFlags |-> {},
    forceEngine |-> [kind |-> "undefined", value |-> << >>],
    mock |-> "null",
    options |-> DefaultOptions ]

InitRank ==
  /\ useIndex \in BOOLEAN
  /\ useFireEngine \in BOOLEAN
  /\ usePlaywright \in BOOLEAN
  /\ indexWriteOnly \in BOOLEAN
  /\ engines = EnginesOf(useIndex, useFireEngine, usePlaywright)
  /\ request = DefaultMeta
  /\ meta = DefaultMeta
  /\ selectedEngines = << >>
  /\ calls = << >>
  /\ pc = "idle"

\* the Meta object after buildFallbackList(m) has run over currentEngines
MetaAfter(m, currentEngines) ==
  IF currentEngines = << >> THEN m
  ELSE [m EXCEPT !.featureFlags =
          FeatureFlagsAfter(m, currentEngines[Len(currentEngines)])]

\* one call of buildFallbackList(m) and what it leaves behind
Rank(m) ==
  LET should == ShouldUseIndex(useIndex, indexWriteOnly, m)
      returned ==
        buildFallbackList(m, engines, useIndex, useFireEngine, indexWriteOnly)
  IN  /\ request' = m
      /\ meta' =
           MetaAfter(m, CurrentEngines(m,
             WithoutIndex(WithMockEngines(engines, useFireEngine, m), should)))
      /\ selectedEngines' = returned
      /\ engines' = ModuleEnginesAfter(engines, should)
      /\ calls' =
           Append(calls, [request |-> m, selectedEngines |-> selectedEngines'])
      /\ pc' = "ranked"
      /\ UNCHANGED << useIndex, useFireEngine, usePlaywright, indexWriteOnly >>

\* the requests of the repeated calls: with and without a flag that keeps the
\* request off the index, with and without a mock, with and without forceEngine
RepeatRequests ==
  { [ url |-> RequestUrl,
      rewrittenUrl |-> << >>,
      featureFlags |-> fl,
      forceEngine |-> fo,
      mock |-> mk,
      options |-> OptionsOf(fl, DefaultFreeOptions) ] :
      fl \in { {}, { "waitFor" }, { "pdf" } },
      fo \in { [kind |-> "undefined", value |-> << >>],
               [kind |-> "single", value |-> << "index" >>] },
      mk \in AllMocks }

(***************************************************************************)
(* State of the execution driver, for one orchestration call.              *)
(***************************************************************************)

VARIABLES
  dstate,          \* "Idle", "Attempting", "InFlight" or "Done"
  attempt,         \* the number of candidates taken from the ranked list
  remainingBudget, \* the time left to the call, in ms
  externalMRT,     \* what the max-reasonable-time functions of the engines
                   \* implemented outside this code return for the request
  inFlight,        \* the backend invocations that are running
  invoked,         \* the invocations started so far, in order
  errors,          \* the (backend, errorDetail) pairs recorded so far
  outcomes         \* the outcomes surfaced to the caller

driverVars ==
  << dstate, attempt, remainingBudget, externalMRT, inFlight, invoked, errors,
     outcomes >>

(***************************************************************************)
(* State outside the ranker and the driver.                                *)
(***************************************************************************)

VARIABLES
  mrt,             \* the last call of getEngineMaxReasonableTime, if any
  warnings         \* what meta.logger.warn was called with, in order

mrtVars == << mrt, warnings >>

InitMRT ==
  /\ mrt = << >>
  /\ warnings = << >>

\* The playwright microservice: one POST /scrape request.
VARIABLES
  spc,             \* the await the request stands at
  params,          \* req.body
  contextState,    \* requestContext: "none", "open" or "closed"
  pageState,       \* page: "none", "open" or "closed"
  strategy,        \* 0, or the number of the strategy that is running
  actionIdx,       \* executeActions: the actions gone through by this run
  navigations,     \* the waitUntil of every page.goto, in order
  executed,        \* the actions that were run: strategy, index and type
  result,          \* the ScrapeResult of scrapePage, if any
  thrown,          \* the error scrape() is about to throw, if any
  reply            \* the HTTP reply of the endpoint, if any

serviceVars ==
  << spc, params, contextState, pageState, strategy, actionIdx, navigations,
     executed, result, thrown, reply >>

InitService ==
  /\ spc = "listening"
  /\ params = << >>
  /\ contextState = "none"
  /\ pageState = "none"
  /\ strategy = 0
  /\ actionIdx = 0
  /\ navigations = << >>
  /\ executed = << >>
  /\ result = << >>
  /\ thrown = << >>
  /\ reply = << >>

\* The BrowserManager singleton and what runs against it.  A browser is the
\* number of the launch that made it.
\*   browser   this.browser: << >> for null, << b >> for a browser
\*   launches  the calls of chromium.launch so far
\*   launched  the browsers chromium.launch has given
\*   bpc       where each caller of the manager stands
\*   handle    the launch each caller waits for, 0 for none
\*   got       what getBrowser() returned to each caller: << >> before it
\*             returns, then << this.browser >>
\*   closed    the browsers close() was called on, one entry for each call
\*   sigint    where the SIGINT handler stands, for each delivery of SIGINT
VARIABLES browser, launches, launched, bpc, handle, got, closed, sigint

browserVars ==
  << browser, launches, launched, bpc, handle, got, closed, sigint >>

\* app.listen's callback, a POST /scrape and a GET /health
Callers == { "listen", "scrape", "health" }

\* the deliveries of SIGINT, in their order
Signals == 1..MaxSignals

InitBrowser ==
  /\ browser = << >>
  /\ launches = 0
  /\ launched = {}
  /\ bpc = [ c \in Callers |-> "idle" ]
  /\ handle = [ c \in Callers |-> 0 ]
  /\ got = [ c \in Callers |-> << >> ]
  /\ closed = << >>
  /\ sigint = [ s \in Signals |-> "idle" ]

otherVars == << mrtVars, serviceVars, browserVars >>

InitOther == InitMRT /\ InitService /\ InitBrowser

vars == << rankVars, driverVars, otherVars >>

InitDriver ==
  /\ dstate = "Idle"
  /\ attempt = 0
  /\ remainingBudget = 0
  /\ externalMRT = 0
  /\ inFlight = {}
  /\ invoked = << >>
  /\ errors = << >>
  /\ outcomes = << >>

Init == InitRank /\ InitDriver /\ InitOther

\* one call of buildFallbackList(meta)
BuildFallbackList ==
  /\ pc = "idle"
  /\ \E m \in Requests : Rank(m)
  /\ UNCHANGED << driverVars, otherVars >>

Next == BuildFallbackList

Spec == Init /\ [][Next]_vars

\* a further call of buildFallbackList in the same process
BuildFallbackListRepeated ==
  /\ Len(calls) < MaxCalls
  /\ \E m \in RepeatRequests : Rank(m)
  /\ UNCHANGED << driverVars, otherVars >>

NextCalls == BuildFallbackListRepeated

SpecCalls == Init /\ [][NextCalls]_vars

(***************************************************************************)
(* The playwright adapter and the time budget policy.                      *)
(***************************************************************************)

\* const request: PlaywrightScrapeRequestCommon, of the fields of Meta the
\* model has; abort is meta.abort
PlaywrightScrapeRequest(m, abort) ==
  [ url             |-> IF m.rewrittenUrl # << >> THEN m.rewrittenUrl[1]
                        ELSE m.url,
    wait_after_load |-> m.options.waitFor,
    timeout         |-> abort.scrapeTimeout,
    headers         |-> m.options.headers,
    skip_tls_verification |-> m.options.skipTlsVerification,
    geolocation     |-> m.options.location,
    screenshot      |-> "screenshot" \in m.options.formats,
    mobileProxy     |-> "stealthProxy" \in m.featureFlags ]

\* mutant: the abort signal is not handed to robustFetch
performPlaywrightScrape_NoAbort(req, mock, abort) ==
  [ method |-> "POST", body |-> req, mock |-> mock, abort |-> "undefined" ]

\* performPlaywrightScrape: the HTTP call robustFetch makes to the microservice
performPlaywrightScrape(req, mock, abort) ==
  [ method |-> "POST", body |-> req, mock |-> mock, abort |-> abort ]

\* scrapeURLWithPlaywright: the HTTP call of one invocation of the engine
scrapeURLWithPlaywright(m, abort) ==
  performPlaywrightScrape(PlaywrightScrapeRequest(m, abort), m.mock,
                          abort.signal)

\* mutant: the wait time is not added
playwrightMaxReasonableTime_Fixed(m) == 30000

\* playwrightMaxReasonableTime: (meta.options.waitFor ?? 0) + 30000
playwrightMaxReasonableTime(m) ==
  (IF "waitFor" \in DOMAIN m.options THEN m.options.waitFor ELSE 0) + 30000

\* const engineMRTs: the max-reasonable-time function of each engine, applied
\* to the request; external is the value of the functions imported from the
\* other engines
engineMRTs(m, external) ==
  [ e \in Engine |->
      IF e = "playwright" THEN playwrightMaxReasonableTime(m) ELSE external ]

\* mutant: the fallback duration is returned for every engine
getEngineMaxReasonableTime_AlwaysFallback(m, engine, external) == 30000

\* mutant: an engine without a function gets no time at all
getEngineMaxReasonableTime_NoFallback(m, engine, external) ==
  IF engine \notin DOMAIN engineMRTs(m, external) THEN 0
  ELSE engineMRTs(m, external)[engine]

\* getEngineMaxReasonableTime
getEngineMaxReasonableTime(m, engine, external) ==
  IF engine \notin DOMAIN engineMRTs(m, external) THEN 30000
  ELSE engineMRTs(m, external)[engine]

\* engine names that are not keys of engineMRTs
UnregisteredEngines == { "scrapingbee" }

\* the values the max-reasonable-time functions of the other engines return
ExternalMRTs == { 15000, 30000 }

\* the request m with no waitFor option
WithoutWaitFor(m) ==
  [ m EXCEPT !.options =
      [ k \in DOMAIN m.options \ { "waitFor" } |-> m.options[k] ] ]

\* the requests the time of an engine is asked for
MRTRequests == RepeatRequests \cup { WithoutWaitFor(DefaultMeta) }

\* one call of getEngineMaxReasonableTime(meta, engine), with its warning
GetEngineMaxReasonableTime ==
  /\ mrt = << >>
  /\ \E m \in MRTRequests, engine \in Engine \cup UnregisteredEngines,
        external \in ExternalMRTs :
       /\ mrt' = << [ meta |-> m, engine |-> engine, external |-> external,
                      returned |-> getEngineMaxReasonableTime(m, engine, external) ] >>
       /\ warnings' =
            IF engine \notin DOMAIN engineMRTs(m, external)
              THEN Append(warnings, engine)
              ELSE warnings
  /\ UNCHANGED << rankVars, driverVars, serviceVars, browserVars >>

NextMRT == GetEngineMaxReasonableTime

SpecMRT == Init /\ [][NextMRT]_vars

(***************************************************************************)
(* The execution driver: one orchestration call.                           *)
(***************************************************************************)

\* the requests the driver is followed on
DriverRequests ==
  { [ url |-> RequestUrl, rewrittenUrl |-> << >>,
      featureFlags |-> fl, forceEngine |-> fo, mock |-> "null",
      options |-> OptionsOf(fl, DefaultFreeOptions) ] :
      fl \in { {}, {"waitFor"}, {"pdf"}, {"atsv"}, {"actions"} },
      fo \in { [kind |-> "undefined", value |-> << >>],
               [kind |-> "single", value |-> << "playwright" >>],
               [kind |-> "array", value |-> << "fetch", "playwright" >>],
               [kind |-> "array",
                value |-> << "playwright", "fetch", "fire-engine;tlsclient" >>] } }

\* the overall time a call is given, in ms
Budgets == { 0, 20000, 100000 }

\* the time after which a backend that answers does so, in ms
ResponseTimes == { 1000 }

Min(a, b) == IF a <= b THEN a ELSE b

\* meta.abort, as the driver hands it to an adapter
AbortOf(budget) == [ signal |-> "request", scrapeTimeout |-> budget ]

\* mutant: the timeout of an invocation is the engine's own time
EffectiveTimeout_Unclamped(maxTime, budget) == maxTime

EffectiveTimeout(maxTime, budget) == Min(maxTime, budget)

\* mutant: a candidate is started with no time left
BudgetLeft_OrZero(budget) == budget >= 0

BudgetLeft(budget) == budget > 0

\* mutant: the next candidate is started while one is running
CanStart_Speculative(state, running) == state \in { "Attempting", "InFlight" }

CanStart(state, running) == state = "Attempting" /\ running = {}

\* the invocation of candidate number i
Invocation(i) ==
  LET engine  == selectedEngines[i].engine
      maxTime == getEngineMaxReasonableTime(meta, engine, externalMRT)
      abort   == AbortOf(remainingBudget)
  IN  [ index            |-> i,
        engine           |-> engine,
        maxTime          |-> maxTime,
        budgetAtStart    |-> remainingBudget,
        effectiveTimeout |-> EffectiveTimeout(maxTime, remainingBudget),
        abort            |-> abort,
        http             |-> IF engine = "playwright"
                               THEN << scrapeURLWithPlaywright(meta, abort) >>
                               ELSE << >> ]

\* an outcome surfaced to the caller
Outcome(kind, backend, unsupported, errs) ==
  [ kind |-> kind, backendUsed |-> backend, unsupportedFeatures |-> unsupported,
    errors |-> errs ]

Failed(kind, errs) == Outcome(kind, "", {}, errs)

\* mutant: an empty ranking is reported as the failure of every backend
RankingFailure_AllFailed == Failed("AllBackendsFailed", << >>)

RankingFailure == Failed("NoViableBackend", << >>)

\* Ranking: execute(request) ranks the candidates
Execute ==
  /\ dstate = "Idle"
  /\ pc = "idle"
  /\ \E m \in DriverRequests : Rank(m)
  /\ Len(selectedEngines') <= MaxCandidates
  /\ remainingBudget' \in Budgets
  /\ externalMRT' \in ExternalMRTs
  /\ IF selectedEngines' = << >>
       THEN dstate' = "Done" /\ outcomes' = Append(outcomes, RankingFailure)
       ELSE dstate' = "Attempting" /\ outcomes' = outcomes
  /\ UNCHANGED << attempt, inFlight, invoked, errors, otherVars >>

\* Attempting: no candidate is left
CandidatesExhausted ==
  /\ dstate = "Attempting"
  /\ attempt = Len(selectedEngines)
  /\ dstate' = "Done"
  /\ outcomes' = Append(outcomes, Failed("AllBackendsFailed", errors))
  /\ UNCHANGED << rankVars, otherVars, attempt, remainingBudget, externalMRT, inFlight,
                  invoked, errors >>

\* mutant: the budget is looked at before the list
BudgetExhausted_BeforeList ==
  /\ dstate = "Attempting"
  /\ ~BudgetLeft(remainingBudget)
  /\ dstate' = "Done"
  /\ outcomes' = Append(outcomes, Failed("BudgetExhausted", errors))
  /\ UNCHANGED << rankVars, otherVars, attempt, remainingBudget, externalMRT, inFlight,
                  invoked, errors >>

\* Attempting: a candidate is left and the budget is used up
BudgetExhausted ==
  /\ dstate = "Attempting"
  /\ attempt < Len(selectedEngines)
  /\ ~BudgetLeft(remainingBudget)
  /\ dstate' = "Done"
  /\ outcomes' = Append(outcomes, Failed("BudgetExhausted", errors))
  /\ UNCHANGED << rankVars, otherVars, attempt, remainingBudget, externalMRT, inFlight,
                  invoked, errors >>

\* Attempting: the next candidate is invoked
StartInvocation ==
  /\ CanStart(dstate, inFlight)
  /\ attempt < Len(selectedEngines)
  /\ BudgetLeft(remainingBudget)
  /\ attempt' = attempt + 1
  /\ inFlight' = inFlight \cup { Invocation(attempt + 1) }
  /\ invoked' = Append(invoked, Invocation(attempt + 1))
  /\ dstate' = "InFlight"
  /\ UNCHANGED << rankVars, otherVars, remainingBudget, externalMRT, errors, outcomes >>

\* mutant: the failure of a backend is handed to the caller as it is
RecordFailure_Surfaced(r, d, detail) ==
  /\ inFlight' = inFlight \ { r }
  /\ remainingBudget' = remainingBudget - d
  /\ outcomes' = Append(outcomes, Failed(detail, << >>))
  /\ dstate' = "Attempting"
  /\ UNCHANGED << rankVars, otherVars, attempt, externalMRT, invoked, errors >>

\* the invocation r has ended after d ms with the failure detail
RecordFailure(r, d, detail) ==
  /\ inFlight' = inFlight \ { r }
  /\ remainingBudget' = remainingBudget - d
  /\ errors' = Append(errors, [backend |-> r.engine, errorDetail |-> detail])
  /\ dstate' = "Attempting"
  /\ UNCHANGED << rankVars, otherVars, attempt, externalMRT, invoked, outcomes >>

\* mutant: after a success the driver goes on to the next candidate
InvocationSucceeds_KeepsGoing ==
  /\ dstate = "InFlight"
  /\ \E r \in inFlight, d \in ResponseTimes :
       /\ d < r.effectiveTimeout
       /\ inFlight' = inFlight \ { r }
       /\ remainingBudget' = remainingBudget - d
       /\ outcomes' = Append(outcomes,
            Outcome("Succeeded", r.engine,
                    selectedEngines[r.index].unsupportedFeatures, << >>))
  /\ dstate' = "Attempting"
  /\ UNCHANGED << rankVars, otherVars, attempt, externalMRT, invoked, errors >>

\* the backend returns a well-formed result
InvocationSucceeds ==
  /\ dstate = "InFlight"
  /\ \E r \in inFlight, d \in ResponseTimes :
       /\ d < r.effectiveTimeout
       /\ inFlight' = inFlight \ { r }
       /\ remainingBudget' = remainingBudget - d
       /\ outcomes' = Append(outcomes,
            Outcome("Succeeded", r.engine,
                    selectedEngines[r.index].unsupportedFeatures, << >>))
  /\ dstate' = "Done"
  /\ UNCHANGED << rankVars, otherVars, attempt, externalMRT, invoked, errors >>

\* the backend returns a result without content or without a numeric status
InvocationReturnsMalformed ==
  /\ dstate = "InFlight"
  /\ \E r \in inFlight, d \in ResponseTimes :
       d < r.effectiveTimeout /\ RecordFailure(r, d, "malformed")

\* the adapter throws
InvocationThrows ==
  /\ dstate = "InFlight"
  /\ \E r \in inFlight, d \in ResponseTimes :
       d < r.effectiveTimeout /\ RecordFailure(r, d, "threw")

\* the backend does not answer within the effective timeout
InvocationTimesOut ==
  /\ dstate = "InFlight"
  /\ \E r \in inFlight : RecordFailure(r, r.effectiveTimeout, "timeout")

\* an invocation ends when the request's signal fires if its transport holds
\* the signal; the adapters outside this code honour cancellation
Cancellable(r) == Len(r.http) = 0 \/ r.http[1].abort = r.abort.signal

\* the caller cancels the request
Cancel ==
  /\ dstate \in { "Attempting", "InFlight" }
  /\ inFlight' = { r \in inFlight : ~Cancellable(r) }
  /\ dstate' = "Done"
  /\ outcomes' = Append(outcomes, Failed("Cancelled", << >>))
  /\ UNCHANGED << rankVars, otherVars, attempt, remainingBudget, externalMRT, invoked,
                  errors >>

DriverStep ==
  \/ CandidatesExhausted
  \/ BudgetExhausted
  \/ StartInvocation
  \/ InvocationSucceeds
  \/ InvocationReturnsMalformed
  \/ InvocationThrows
  \/ InvocationTimesOut

NextDriver ==
  \/ Execute
  \/ DriverStep
  \/ Cancel

SpecDriver == Init /\ [][NextDriver]_vars

\* the driver of a call keeps running, and every invocation returns, fails
\* or times out
SpecDriverFair == SpecDriver /\ WF_vars(DriverStep)

(***************************************************************************)
(* Vocabulary of the properties.                                           *)
(***************************************************************************)

RECURSIVE WeightFrom(_, _)
WeightFrom(S, i) ==
  IF i > Len(featureFlags) THEN 0
  ELSE (IF featureFlags[i] \in S
          THEN featureFlagOptions[featureFlags[i]].priority ELSE 0)
       + WeightFrom(S, i + 1)

\* the summed priority of a set of flags
Weight(S) == WeightFrom(S, 1)

\* the requested flags an engine supports, and their weight
Supports(e) == { f \in meta.featureFlags : engineOptions[e].features[f] }
Score(e) == Weight(Supports(e))
Threshold == Weight(meta.featureFlags) \div 2
Quality(e) == engineOptions[e].quality

Ranked == pc = "ranked"
Forced == meta.forceEngine.kind # "undefined"
Range(seq) == { seq[i] : i \in 1..Len(seq) }
ReturnedSeq == [i \in 1..Len(selectedEngines) |-> selectedEngines[i].engine]
Returned == Range(ReturnedSeq)

\* the list the call ranks: the forced engines, or the available engines
\* with the request's mock entries and without the index engines it may not use
CandidateSource ==
  CurrentEngines(meta,
    WithoutIndex(WithMockEngines(engines, useFireEngine, meta),
                 ShouldUseIndex(useIndex, indexWriteOnly, meta)))

Eligible ==
  LET threshold == Threshold
  IN  { e \in Range(CandidateSource) : Score(e) >= threshold }

(***************************************************************************)
(* Properties of buildFallbackList.                                        *)
(***************************************************************************)

\* C1: every engine buildFallbackList returns has a support score of at least
\* floor(prioritySum / 2), with or without forceEngine.
C1_ThresholdMet ==
  Ranked =>
    LET threshold == Threshold
    IN  \A e \in Returned : Score(e) >= threshold

\* a forced list of which one member is returned and one is below the threshold
C1_Witness ==
  /\ Ranked /\ ~Forced
  /\ Threshold > 0
  /\ Returned # {}
  /\ \E e \in Range(CandidateSource) : Score(e) < Threshold

\* C2: if an engine that meets the threshold has positive quality, no engine
\* of quality <= 0 is returned; if none has, every engine that meets the
\* threshold is returned.
C2_Dominance ==
  Ranked =>
    LET eligible == Eligible
    IN  /\ (\E e \in eligible : Quality(e) > 0) =>
             \A e \in Returned : Quality(e) > 0
        /\ (\A e \in eligible : Quality(e) <= 0) => Returned = eligible

\* engines of both signs meet the threshold, and the call has dropped some
C2_Witness ==
  /\ Ranked
  /\ LET eligible == Eligible
     IN  /\ \E e \in eligible : Quality(e) > 0
         /\ \E e \in eligible : Quality(e) <= 0
         /\ meta.featureFlags # {}
         /\ Returned # {}

\* C3: without forceEngine the returned list is ordered by descending support
\* score, then by descending quality, and engines equal in both keep the
\* order they have in the list of available engines.
C3_Ordered ==
  (Ranked /\ ~Forced) =>
    LET source == CandidateSource
        score == [e \in Returned |-> Score(e)]
        position == [e \in Returned |-> IndexOf(source, e)]
    IN  \A i, j \in 1..Len(selectedEngines) :
          i < j =>
            LET a == selectedEngines[i].engine
                b == selectedEngines[j].engine
            IN  \/ score[a] > score[b]
                \/ score[a] = score[b] /\ Quality(a) > Quality(b)
                \/ /\ score[a] = score[b]
                   /\ Quality(a) = Quality(b)
                   /\ position[a] < position[b]

\* pdf and docx are returned with the same score and the same quality, behind
\* an engine of a higher score
C3_Witness ==
  /\ Ranked /\ ~Forced
  /\ \E i, j \in 1..Len(selectedEngines) :
       /\ i < j
       /\ selectedEngines[i].engine = "pdf"
       /\ selectedEngines[j].engine = "docx"
       /\ Score("pdf") = Score("docx")
  /\ \E i \in 1..Len(selectedEngines) :
       Score(selectedEngines[i].engine) > Score("pdf")

\* C4 as stated: when a forceEngine list is supplied and every member meets
\* the threshold, the returned engines are exactly that list.
C4_ForcedListReturnedWhole ==
  (Ranked /\ meta.forceEngine.kind = "array"
     /\ \A e \in Range(meta.forceEngine.value) : Score(e) >= Threshold) =>
    ReturnedSeq = meta.forceEngine.value

IsPositive(e) == Quality(e) > 0

\* C4, amended: when a forceEngine list is supplied and every member meets
\* the threshold, the returned engines are that list in the caller's order,
\* without its members of quality <= 0 if a member has positive quality.
C4_ForcedOrderKept ==
  (Ranked /\ meta.forceEngine.kind = "array"
     /\ \A e \in Range(meta.forceEngine.value) : Score(e) >= Threshold) =>
    ReturnedSeq =
      IF \E e \in Range(meta.forceEngine.value) : IsPositive(e)
        THEN SelectSeq(meta.forceEngine.value, IsPositive)
        ELSE meta.forceEngine.value

\* a forced list of two engines is returned whole, the engine of the lower
\* quality first
C4_Witness ==
  /\ Ranked /\ meta.forceEngine.kind = "array"
  /\ Len(selectedEngines) = 2
  /\ ReturnedSeq = meta.forceEngine.value
  /\ Quality(ReturnedSeq[1]) < Quality(ReturnedSeq[2])

\* C5: a forced engine whose support score is below the threshold is not
\* returned.
C5_ForcedStillFiltered ==
  (Ranked /\ Forced) =>
    LET threshold == Threshold
    IN  \A e \in Range(meta.forceEngine.value) :
          Score(e) < threshold => e \notin Returned

\* a single forced engine is below the threshold and nothing is returned
C5_Witness ==
  /\ Ranked /\ meta.forceEngine.kind = "single"
  /\ Score(meta.forceEngine.value[1]) < Threshold
  /\ selectedEngines = << >>

\* C6: the supportScore of every returned candidate is the summed priority
\* of exactly the requested flags its engine supports.
C6_SupportScore ==
  Ranked =>
    \A i \in 1..Len(selectedEngines) :
      selectedEngines[i].supportScore =
        Weight({ f \in FeatureFlag :
                   /\ f \in meta.featureFlags
                   /\ engineOptions[selectedEngines[i].engine].features[f] })

\* a returned engine supports one requested flag, not another, and a flag
\* that was not requested
C6_Witness ==
  /\ Ranked
  /\ \E i \in 1..Len(selectedEngines) :
       LET features == engineOptions[selectedEngines[i].engine].features
       IN  /\ 0 < selectedEngines[i].supportScore
           /\ selectedEngines[i].supportScore < Weight(meta.featureFlags)
           /\ \E f \in FeatureFlag \ meta.featureFlags : features[f]

\* C7: unsupportedFeatures of every returned candidate is the set of requested
\* flags its engine does not support, and supportScore plus the weight of
\* unsupportedFeatures is prioritySum.
C7_UnsupportedFeatures ==
  Ranked =>
    \A i \in 1..Len(selectedEngines) :
      LET c == selectedEngines[i]
          features == engineOptions[c.engine].features
      IN  /\ c.unsupportedFeatures =
               { f \in meta.featureFlags : ~features[f] }
          /\ c.unsupportedFeatures \subseteq meta.featureFlags
          /\ c.unsupportedFeatures \cap Supports(c.engine) = {}
          /\ c.supportScore + Weight(c.unsupportedFeatures) =
               Weight(meta.featureFlags)

\* a returned candidate has a supported and an unsupported requested flag
C7_Witness ==
  /\ Ranked
  /\ \E i \in 1..Len(selectedEngines) :
       /\ selectedEngines[i].unsupportedFeatures # {}
       /\ selectedEngines[i].supportScore > 0

RECURSIVE DescendingQuality(_)
DescendingQuality(seq) ==
  \/ Len(seq) <= 1
  \/ /\ Quality(seq[1]) >= Quality(seq[2])
     /\ DescendingQuality(Tail(seq))

\* C8 as stated: with no flag requested, all engines of the registry are
\* returned, in descending order of quality.
C8_AllEnginesByQuality ==
  (Ranked /\ meta.featureFlags = {}) =>
    /\ Returned = Range(engines)
    /\ DescendingQuality(ReturnedSeq)

\* C8, amended: with no flag requested and no forceEngine, exactly the
\* engines of positive quality of the request's candidate list are returned,
\* in descending order of quality.
C8_PositiveEnginesByQuality ==
  (Ranked /\ meta.featureFlags = {} /\ ~Forced) =>
    /\ Returned = { e \in Range(CandidateSource) : Quality(e) > 0 }
    /\ DescendingQuality(ReturnedSeq)

\* no flag, no forceEngine: three engines or more are returned, and the
\* specialty engines of the candidate list are not
C8_Witness ==
  /\ Ranked /\ meta.featureFlags = {} /\ ~Forced
  /\ Len(selectedEngines) >= 3
  /\ "pdf" \in Range(CandidateSource) \ Returned

\* C9 as stated: when a flag is requested, every returned engine supports a
\* requested flag.
C9_SomeFlagSupported ==
  (Ranked /\ meta.featureFlags # {}) =>
    \A e \in Returned : Supports(e) # {}

\* C9, amended: an engine that supports no requested flag is returned only if
\* floor(prioritySum / 2) is 0, that is if no flag or only waitFor is requested.
C9_SomeFlagSupportedAboveZero ==
  (Ranked /\ meta.featureFlags \notin { {}, { "waitFor" } }) =>
    \A e \in Returned : Supports(e) # {}

\* one flag other than waitFor: an engine is returned, and an engine of the
\* candidate list that supports no requested flag is not
C9_Witness ==
  /\ Ranked
  /\ Cardinality(meta.featureFlags) = 1
  /\ meta.featureFlags # { "waitFor" }
  /\ Returned # {}
  /\ \E e \in Range(CandidateSource) : Supports(e) = {} /\ e \notin Returned

C11_NoEngineTwice ==
  Ranked =>
    \A i, j \in 1..Len(selectedEngines) :
      selectedEngines[i].engine = selectedEngines[j].engine => i = j

(***************************************************************************)
(* Properties of repeated calls.                                           *)
(***************************************************************************)

\* C12: two calls of buildFallbackList with the same request return the same
\* list, whatever was called in between.
C12_Deterministic ==
  \A i, j \in 1..Len(calls) :
    calls[i].request = calls[j].request =>
      calls[i].selectedEngines = calls[j].selectedEngines

\* the first and the third call have the same request, which may use the
\* index; the call between them may not, and had the index engines spliced out
C12_Witness ==
  /\ Len(calls) = 3
  /\ calls[1].request = calls[3].request
  /\ "index" \in Range([i \in 1..Len(calls[3].selectedEngines) |->
                          calls[3].selectedEngines[i].engine])
  /\ ~Forced
  /\ calls[2].request.forceEngine.kind = "undefined"
  /\ "waitFor" \in calls[2].request.featureFlags

\* C13: after any sequence of calls the module-level list of available engines
\* is the one built at process start, and the featureFlags of the request are
\* the ones the caller passed.
C13_NothingMutated ==
  /\ engines = EnginesOf(useIndex, useFireEngine, usePlaywright)
  /\ meta.featureFlags = request.featureFlags

\* the index is configured; the last call had a mock and a flag that its
\* engines support, and spliced the index engines out of its own list
C13_Witness ==
  /\ Len(calls) >= 2
  /\ useIndex /\ ~useFireEngine /\ ~Forced
  /\ request.mock # "null"
  /\ request.featureFlags = { "waitFor" }
  /\ selectedEngines # << >>
  /\ "index" \notin Range(CandidateSource)
  /\ "fire-engine;chrome-cdp" \in Range(CandidateSource)

(***************************************************************************)
(* Properties of the execution driver.                                     *)
(***************************************************************************)

Done == dstate = "Done"
OutcomeKinds == { outcomes[i].kind : i \in 1..Len(outcomes) }
InvokedSeq == [i \in 1..Len(invoked) |-> invoked[i].engine]
ErrorBackends == [i \in 1..Len(errors) |-> errors[i].backend]

\* C14: when no engine of the candidate source meets the threshold,
\* buildFallbackList returns the empty list, and on an empty list the driver
\* ends in Failed(NoViableBackend) with no backend invoked; NoViableBackend
\* is reported for an empty ranking only, AllBackendsFailed never is.
C14_EmptyListNoViableBackend ==
  Ranked =>
    /\ Eligible = {} => selectedEngines = << >>
    /\ selectedEngines = << >> =>
         /\ Done
         /\ outcomes = << Outcome("NoViableBackend", "", {}, << >>) >>
         /\ invoked = << >>
         /\ inFlight = {}
    /\ "NoViableBackend" \in OutcomeKinds => selectedEngines = << >>

C14_Witness ==
  /\ Done
  /\ CandidateSource # << >>
  /\ Eligible = {}
  /\ ~Forced
  /\ "NoViableBackend" \in OutcomeKinds

\* C15: candidates are invoked in ranked order, one after the other from the
\* first; once a well-formed success is surfaced the call is over, the last
\* invocation is the successful one, the result names that backend and its
\* unsupportedFeatures and carries no error of the earlier candidates; and
\* AllBackendsFailed carries one error per candidate, in the order of the list.
C15_RankedOrderFirstSuccess ==
  /\ Len(invoked) = attempt
  /\ Len(invoked) <= Len(selectedEngines)
  /\ \A i \in 1..Len(invoked) :
       invoked[i].index = i /\ invoked[i].engine = selectedEngines[i].engine
  /\ \A k \in 1..Len(outcomes) :
       /\ outcomes[k].kind = "Succeeded" =>
            /\ Done /\ inFlight = {} /\ Len(outcomes) = 1
            /\ invoked # << >>
            /\ outcomes[k].backendUsed = selectedEngines[Len(invoked)].engine
            /\ outcomes[k].unsupportedFeatures =
                 selectedEngines[Len(invoked)].unsupportedFeatures
            /\ outcomes[k].errors = << >>
            /\ Len(errors) = Len(invoked) - 1
       /\ outcomes[k].kind = "AllBackendsFailed" =>
            /\ Len(outcomes[k].errors) = Len(selectedEngines)
            /\ Len(invoked) = Len(selectedEngines)
            /\ \A i \in 1..Len(selectedEngines) :
                 outcomes[k].errors[i].backend = selectedEngines[i].engine

\* the first candidate threw, the second succeeded, a third was not invoked
C15_Witness ==
  /\ Done
  /\ Len(selectedEngines) = 3
  /\ Len(invoked) = 2
  /\ errors = << [backend |-> selectedEngines[1].engine, errorDetail |-> "threw"] >>
  /\ outcomes[1].kind = "Succeeded"
  /\ outcomes[1].backendUsed = selectedEngines[2].engine
  /\ outcomes[1].unsupportedFeatures # {}

\* C16: every invocation was started with remainingBudget > 0 and with
\* effectiveTimeout = min(maxTime, remainingBudget), maxTime being the
\* engine's max reasonable time for the request; the budget never goes below
\* zero; a call that ended with the budget used up and candidates left, and
\* was not cancelled, ended in BudgetExhausted, and BudgetExhausted is
\* reported in that case only.
C16_BudgetRespected ==
  /\ remainingBudget >= 0
  /\ \A i \in 1..Len(invoked) :
       LET r == invoked[i]
       IN  /\ r.budgetAtStart > 0
           /\ r.maxTime = IF r.engine = "playwright"
                            THEN meta.options.waitFor + 30000
                            ELSE externalMRT
           /\ r.effectiveTimeout =
                IF r.maxTime <= r.budgetAtStart THEN r.maxTime
                ELSE r.budgetAtStart
  /\ (Done /\ remainingBudget <= 0 /\ Len(invoked) < Len(selectedEngines)) =>
       OutcomeKinds \in { {"BudgetExhausted"}, {"Cancelled"} }
  /\ "BudgetExhausted" \in OutcomeKinds =>
       /\ Done /\ inFlight = {}
       /\ remainingBudget <= 0
       /\ Len(invoked) < Len(selectedEngines)

\* the first candidate ran with a clamped timeout and used the budget up; the
\* second was not started
C16_Witness ==
  /\ Done
  /\ OutcomeKinds = {"BudgetExhausted"}
  /\ Len(invoked) = 1
  /\ invoked[1].effectiveTimeout < invoked[1].maxTime
  /\ invoked[1].effectiveTimeout = invoked[1].budgetAtStart
  /\ remainingBudget = 0

\* C17: at most one backend invocation is in flight; the one in flight is the
\* last one started, and every invocation started before it has ended in a
\* recorded failure; between two invocations none is in flight.
C17_OneInFlight ==
  /\ Cardinality(inFlight) <= 1
  /\ inFlight # {} =>
       /\ dstate = "InFlight"
       /\ invoked # << >>
       /\ inFlight = { invoked[Len(invoked)] }
       /\ Len(errors) = Len(invoked) - 1
  /\ dstate = "InFlight" => inFlight # {}
  /\ dstate = "Attempting" => inFlight = {} /\ Len(errors) = Len(invoked)

\* the second candidate runs after the first one timed out
C17_Witness ==
  /\ dstate = "InFlight"
  /\ Len(invoked) = 2
  /\ Cardinality(inFlight) = 1
  /\ Len(errors) = 1
  /\ errors[1].errorDetail = "timeout"
  /\ Len(selectedEngines) = 3

\* C18: the errors recorded are those of the candidates invoked, in order; a
\* call whose candidates have all failed ends in AllBackendsFailed with these
\* errors unless it was cancelled, also when the last timeout used the budget
\* up, so that a single candidate that times out gives AllBackendsFailed with
\* one timeout error; BudgetExhausted is reported only with the budget at
\* zero or less and a candidate not started, and carries the errors recorded.
C18_TimeoutIsCandidateFailure ==
  /\ Len(errors) <= Len(invoked)
  /\ \A i \in 1..Len(errors) : errors[i].backend = invoked[i].engine
  /\ (Done /\ Len(errors) = Len(selectedEngines) /\ selectedEngines # << >>) =>
       \/ outcomes = << Outcome("AllBackendsFailed", "", {}, errors) >>
       \/ OutcomeKinds = {"Cancelled"}
  /\ (Done /\ Len(selectedEngines) = 1 /\ Len(errors) = 1
           /\ errors[1].errorDetail = "timeout"
           /\ "Cancelled" \notin OutcomeKinds) =>
       /\ OutcomeKinds = {"AllBackendsFailed"}
       /\ outcomes[1].errors =
            << [backend |-> selectedEngines[1].engine, errorDetail |-> "timeout"] >>
  /\ \A k \in 1..Len(outcomes) :
       outcomes[k].kind = "BudgetExhausted" =>
         /\ remainingBudget <= 0
         /\ Len(invoked) < Len(selectedEngines)
         /\ Len(errors) = Len(invoked)
         /\ outcomes[k].errors = errors

\* a single candidate timed out and used the whole budget up
C18_Witness ==
  /\ Done
  /\ Len(selectedEngines) = 1
  /\ remainingBudget = 0
  /\ Len(invoked) = 1
  /\ invoked[1].effectiveTimeout = invoked[1].budgetAtStart
  /\ outcomes = << Outcome("AllBackendsFailed", "", {},
        << [backend |-> selectedEngines[1].engine, errorDetail |-> "timeout"] >>) >>

TerminalKinds ==
  { "Succeeded", "NoViableBackend", "BudgetExhausted", "AllBackendsFailed",
    "Cancelled" }

OneOutcome ==
  /\ Len(outcomes) <= 1
  /\ Done <=> Len(outcomes) = 1
  /\ Done => inFlight = {}
  /\ \A k \in 1..Len(outcomes) :
       /\ outcomes[k].kind \in TerminalKinds
       /\ outcomes[k].kind \in { "AllBackendsFailed", "BudgetExhausted" } =>
            /\ outcomes[k].errors = errors
            /\ Len(errors) = Len(invoked)
            /\ \A i \in 1..Len(invoked) :
                 errors[i].backend = invoked[i].engine

\* C19: a call that has started eventually ends, given that the driver keeps
\* running and each invocation returns, fails or times out; an ended call has
\* surfaced exactly one outcome and a running one none, the outcome is one of
\* the five terminal kinds, and an aggregated failure carries the error of
\* every candidate invoked, in order.
C19_EndsInOneOutcome == []OneOutcome /\ (dstate # "Idle" ~> Done)

\* two candidates failed and the budget ran out before the third
C19_Witness ==
  /\ Done
  /\ Len(outcomes) = 1
  /\ outcomes[1].kind = "BudgetExhausted"
  /\ Len(outcomes[1].errors) = 2
  /\ Len(selectedEngines) = 3

Cancelled == "Cancelled" \in OutcomeKinds

CancelledCallIsOver ==
  /\ Cancelled => Done /\ inFlight = {} /\ outcomes = << Failed("Cancelled", << >>) >>
  /\ \A i \in 1..Len(invoked) :
       invoked[i].engine = "playwright" =>
         /\ Len(invoked[i].http) = 1
         /\ invoked[i].http[1].abort = "request"
         /\ invoked[i].http[1].abort = invoked[i].abort.signal
         /\ invoked[i].http[1].body.timeout = invoked[i].abort.scrapeTimeout
         /\ invoked[i].http[1].body.timeout = invoked[i].budgetAtStart

\* C20: once the caller has cancelled, the call is over with the one outcome
\* Failed(Cancelled), no invocation is running, and no step starts another
\* one; a cancel during an invocation ends that invocation; the HTTP call of
\* every playwright invocation carries the request's abort signal and, as its
\* timeout, the scrape timeout of the request's abort manager.
C20_CancelStopsTheCall ==
  /\ []CancelledCallIsOver
  /\ [][ (inFlight # {} /\ Cancelled') => inFlight' = {} ]_vars
  /\ [][ Cancelled => invoked' = invoked /\ inFlight' = {} ]_vars

\* the call was cancelled while playwright, the first of two candidates, ran
C20_Witness ==
  /\ Done
  /\ Cancelled
  /\ Len(invoked) = 1
  /\ invoked[1].engine = "playwright"
  /\ errors = << >>
  /\ Len(selectedEngines) > 1
  /\ invoked[1].http[1].body.timeout = 20000

(***************************************************************************)
(* Properties of the time policy and of the playwright adapter.            *)
(***************************************************************************)

\* the wait time a request asks for
RequestedWait(m) ==
  IF "waitFor" \in DOMAIN m.options THEN m.options.waitFor ELSE 0

\* C21: for an engine of the enumeration getEngineMaxReasonableTime returns
\* the value of that engine's own function (waitFor + 30000 for playwright,
\* the imported function's value for the others) and logs nothing; for an
\* engine with no function it returns 30000 and logs one warning.
C21_OwnTimeOrFallback ==
  \A i \in 1..Len(mrt) :
    LET c == mrt[i]
    IN  /\ c.engine \in Engine =>
             /\ c.returned = IF c.engine = "playwright"
                               THEN RequestedWait(c.meta) + 30000
                               ELSE c.external
             /\ warnings = << >>
        /\ c.engine \notin Engine =>
             /\ c.returned = 30000
             /\ warnings = << c.engine >>

C21_Witness ==
  /\ mrt # << >>
  /\ mrt[1].engine \notin Engine
  /\ mrt[1].external = 15000
  /\ mrt[1].returned = 30000
  /\ Len(warnings) = 1

PassedThroughFlags == { "actions", "screenshot", "skipTlsVerification", "waitFor" }

\* C22 as stated: the request of every playwright invocation whose candidate
\* drops none of the flags actions, screenshot, skipTlsVerification and
\* waitFor carries the request's URL, headers, wait time, TLS flag and
\* location, and the action list of a request that has one.
C22_RequestPassedThrough ==
  \A i \in 1..Len(invoked) :
    (/\ invoked[i].engine = "playwright"
     /\ PassedThroughFlags \cap selectedEngines[i].unsupportedFeatures = {}) =>
      LET body == invoked[i].http[1].body
      IN  /\ body.url = meta.url
          /\ body.headers = meta.options.headers
          /\ body.wait_after_load = meta.options.waitFor
          /\ body.skip_tls_verification = meta.options.skipTlsVerification
          /\ body.geolocation = meta.options.location
          /\ "actions" \in meta.featureFlags =>
               /\ "actions" \in DOMAIN body
               /\ body.actions = meta.options.actions

(***************************************************************************)
(* The playwright microservice: POST /scrape and ScrapeService.scrape.     *)
(***************************************************************************)

\* type Action: the action types
ActionType ==
  { "wait", "click", "screenshot", "write", "press", "scroll", "scrape",
    "executeJavascript", "pdf" }

\* mutant: the switch has a case for every type
ImplementedActions_Every == ActionType

\* executeActions: the types the switch has a case for
ImplementedActions ==
  { "wait", "click", "screenshot", "executeJavascript", "pdf" }

\* the action types the action lists of the model are made of
ListedActionTypes == { "click", "screenshot", "scroll" }

\* the action lists of at most n actions
RECURSIVE ActionListsUpTo(_)
ActionListsUpTo(n) ==
  IF n = 0 THEN { << >> }
  ELSE LET shorter == ActionListsUpTo(n - 1)
       IN  shorter \cup
           { Append(l, a) : l \in { k \in shorter : Len(k) = n - 1 },
                            a \in ListedActionTypes }

\* A URL is the sequence of its parts, the scheme first; the empty sequence
\* is the empty string.  An optional field is << >> or << value >>.
ScrapeParams ==
  [ url     : { << >>, << << >> >>, << << "example.com/page" >> >>,
                << << "https:", "//example.com/page" >> >> },
    headers : { << >>, << { "Cookie" } >> },
    wait_after_load : { 0, 1000 },
    actions : { << >> } \cup { << l >> : l \in ActionListsUpTo(MaxActions) } ]

\* new URL(urlString) parses a string that starts with a scheme
Schemes == { "http:", "https:", "file:" }

\* mutant: every string is taken for a URL
isValid_Anything(urlString) == TRUE

\* UrlValidator.isValid
isValid(urlString) == urlString # << >> /\ urlString[1] \in Schemes

\* the statuses a response of the model has
PageStatuses == { 200, 404 }

WaitUntil == << "load", "networkidle" >>

\* the endpoint's catch: res.status(400).json({ error: error.message })
Reply400(message) ==
  /\ reply' = << [ status |-> 400, body |-> [ error |-> message ] ] >>
  /\ spc' = "replied"

\* app.post('/scrape'): the request arrives
ReceiveScrape ==
  /\ spc = "listening"
  /\ params' \in ScrapeParams
  /\ spc' = "initialize"
  /\ UNCHANGED << rankVars, driverVars, mrtVars, browserVars, contextState, pageState,
                  strategy, actionIdx, navigations, executed, result, thrown,
                  reply >>

\* await browserManager.initialize() gives a browser; scrape() begins and
\* looks at the url
InitializeBrowser ==
  /\ spc = "initialize"
  /\ IF params.url = << >> \/ params.url[1] = << >>
       THEN Reply400("URL is required")
     ELSE IF ~isValid(params.url[1])
       THEN Reply400("Invalid URL")
     ELSE spc' = "createContext" /\ reply' = reply
  /\ UNCHANGED << rankVars, driverVars, mrtVars, browserVars, params, contextState,
                  pageState, strategy, actionIdx, navigations, executed,
                  result, thrown >>

\* await browserManager.initialize() throws: the browser cannot be launched
InitializeBrowserFails ==
  /\ spc = "initialize"
  /\ Reply400("browserType.launch failed")
  /\ UNCHANGED << rankVars, driverVars, mrtVars, browserVars, params, contextState,
                  pageState, strategy, actionIdx, navigations, executed,
                  result, thrown >>

\* await this.contextManager.createContext(skip_tls_verification)
CreateContext ==
  /\ spc = "createContext"
  /\ \E outcome \in { "ok", "newContext throws", "route throws" } :
       /\ contextState' = IF outcome = "newContext throws" THEN "none"
                          ELSE "open"
       /\ IF outcome = "ok" THEN spc' = "newPage" /\ reply' = reply
          ELSE Reply400(outcome)
  /\ UNCHANGED << rankVars, driverVars, mrtVars, browserVars, params, pageState, strategy,
                  actionIdx, navigations, executed, result, thrown >>

\* await requestContext.newPage(); without headers strategy 1 begins
NewPage ==
  /\ spc = "newPage"
  /\ \E outcome \in { "ok", "newPage throws" } :
       IF outcome = "ok"
         THEN /\ pageState' = "open"
              /\ IF params.headers # << >>
                   THEN spc' = "setHeaders" /\ strategy' = strategy
                   ELSE spc' = "goto" /\ strategy' = 1
              /\ reply' = reply
         ELSE Reply400(outcome) /\ UNCHANGED << pageState, strategy >>
  /\ UNCHANGED << rankVars, driverVars, mrtVars, browserVars, params, contextState,
                  actionIdx, navigations, executed, result, thrown >>

\* await page.setExtraHTTPHeaders(headers); strategy 1 begins
SetHeaders ==
  /\ spc = "setHeaders"
  /\ \E outcome \in { "ok", "setExtraHTTPHeaders throws" } :
       IF outcome = "ok"
         THEN spc' = "goto" /\ strategy' = 1 /\ reply' = reply
         ELSE Reply400(outcome) /\ strategy' = strategy
  /\ UNCHANGED << rankVars, driverVars, mrtVars, browserVars, params, contextState,
                  pageState, actionIdx, navigations, executed, result,
                  thrown >>

\* mutant: the first failure ends the call, without a second strategy
StrategyFails_NoSecondAttempt ==
  /\ result' = << >>
  /\ actionIdx' = 0
  /\ strategy' = strategy
  /\ spc' = "closePage"
  /\ thrown' = << "An error occurred while fetching the page." >>

\* scrapePage threw: strategy 2 is tried after strategy 1, and after
\* strategy 2 the page and the context are closed before scrape() throws
StrategyFails ==
  /\ result' = << >>
  /\ actionIdx' = 0
  /\ IF strategy = 1
       THEN strategy' = 2 /\ spc' = "goto" /\ thrown' = thrown
       ELSE /\ strategy' = strategy
            /\ spc' = "closePage"
            /\ thrown' = << "An error occurred while fetching the page." >>

\* where scrapePage stands after idx actions of its list
AfterActions(idx) ==
  IF params.actions # << >> /\ idx < Len(params.actions[1]) THEN "actions"
  ELSE "content"

\* scrapePage: await page.goto(url, { waitUntil, timeout }) and the wait
\* after load
Goto ==
  /\ spc = "goto"
  /\ navigations' = Append(navigations, WaitUntil[strategy])
  /\ \E outcome \in { "response", "null", "throws" } :
       IF outcome = "throws" THEN StrategyFails
       ELSE /\ \E status \in IF outcome = "null" THEN { << >> }
                             ELSE { << st >> : st \in PageStatuses } :
                 result' = << [ content |-> << >>, status |-> status ] >>
            /\ actionIdx' = 0
            /\ spc' = AfterActions(0)
            /\ UNCHANGED << strategy, thrown >>
  /\ UNCHANGED << rankVars, driverVars, mrtVars, browserVars, params, contextState,
                  pageState, executed, reply >>

\* executeActions: one turn of the loop
ExecuteAction ==
  /\ spc = "actions"
  /\ LET action == params.actions[1][actionIdx + 1]
         entry(how) == [ strategy |-> strategy, index |-> actionIdx + 1,
                         type |-> action, outcome |-> how ]
     IN  IF action \in ImplementedActions
           THEN \E outcome \in { "done", "threw" } :
                  /\ executed' = Append(executed, entry(outcome))
                  /\ IF outcome = "threw" THEN StrategyFails
                     ELSE /\ actionIdx' = actionIdx + 1
                          /\ spc' = AfterActions(actionIdx + 1)
                          /\ UNCHANGED << strategy, result, thrown >>
           ELSE /\ executed' = Append(executed, entry("skipped"))
                /\ actionIdx' = actionIdx + 1
                /\ spc' = AfterActions(actionIdx + 1)
                /\ UNCHANGED << strategy, result, thrown >>
  /\ UNCHANGED << rankVars, driverVars, mrtVars, browserVars, params, contextState,
                  pageState, navigations, reply >>

\* mutant: getError is asked whatever the status
PageErrors_AnyStatus(status) == { << >>, << "error" >> }

\* const pageError = result.status !== 200 ? getError(result.status) :
\* undefined; getError is not part of this code and gives a message or nothing
PageErrors(status) ==
  IF status # << 200 >> THEN { << >>, << "error" >> } ELSE { << >> }

\* scrapePage: await page.content() and the headers; scrape() then works
\* out pageError
Content ==
  /\ spc = "content"
  /\ \E outcome \in { "ok", "throws" } :
       IF outcome = "throws" THEN StrategyFails
       ELSE /\ \E pageError \in PageErrors(result[1].status) :
                 result' = << [ content |-> << "html" >>,
                                status |-> result[1].status,
                                pageError |-> pageError ] >>
            /\ spc' = "closePage"
            /\ UNCHANGED << strategy, actionIdx, thrown >>
  /\ UNCHANGED << rankVars, driverVars, mrtVars, browserVars, params, contextState,
                  pageState, navigations, executed, reply >>

\* await page.close()
ClosePage ==
  /\ spc = "closePage"
  /\ \E outcome \in { "ok", "page.close throws" } :
       IF outcome = "ok"
         THEN pageState' = "closed" /\ spc' = "closeContext" /\ reply' = reply
         ELSE Reply400(outcome) /\ pageState' = pageState
  /\ UNCHANGED << rankVars, driverVars, mrtVars, browserVars, params, contextState,
                  strategy, actionIdx, navigations, executed, result,
                  thrown >>

\* the body scrape() returns
ScrapeReturn(r) ==
  [ content |-> r.content, pageStatusCode |-> r.status,
    pageError |-> r.pageError ]

\* await requestContext.close(); scrape() then returns or throws, and the
\* endpoint replies
CloseContext ==
  /\ spc = "closeContext"
  /\ \E outcome \in { "ok", "context.close throws" } :
       IF outcome = "ok"
         THEN /\ contextState' = "closed"
              /\ IF thrown # << >> THEN Reply400(thrown[1])
                 ELSE /\ reply' = << [ status |-> 200,
                                       body |-> ScrapeReturn(result[1]) ] >>
                      /\ spc' = "replied"
         ELSE Reply400(outcome) /\ contextState' = contextState
  /\ UNCHANGED << rankVars, driverVars, mrtVars, browserVars, params, pageState, strategy,
                  actionIdx, navigations, executed, result, thrown >>

NextScrape ==
  \/ ReceiveScrape
  \/ InitializeBrowser
  \/ InitializeBrowserFails
  \/ CreateContext
  \/ NewPage
  \/ SetHeaders
  \/ Goto
  \/ ExecuteAction
  \/ Content
  \/ ClosePage
  \/ CloseContext

SpecScrape == Init /\ [][NextScrape]_vars

(***************************************************************************)
(* The BrowserManager singleton: initialize(), getBrowser() and shutdown() *)
(* as the server's handlers call them.  An await gives the other callers   *)
(* their turn, so each action is the code between two awaits.              *)
(***************************************************************************)

\* process.exit(0) was called
Exited == \E s \in Signals : sigint[s] = "exited"

\* what a caller does once its initialize() has returned: app.listen's
\* callback is over, a handler goes on to createContext and getBrowser()
AfterInitialize(c) == IF c = "listen" THEN "done" ELSE "createContext"

\* this.browser = await chromium.launch(...): the call, up to the await
Launch(c, site) ==
  /\ launches < MaxLaunches
  /\ launches' = launches + 1
  /\ handle' = [ handle EXCEPT ![c] = launches + 1 ]
  /\ bpc' = [ bpc EXCEPT ![c] = site ]

\* browserManager.initialize(), called by app.listen's callback and by the
\* handlers: with a browser it returns, without one it launches
initialize(c) ==
  /\ ~Exited
  /\ bpc[c] = "idle"
  /\ IF browser = << >>
       THEN Launch(c, "initialize")
       ELSE /\ bpc' = [ bpc EXCEPT ![c] = AfterInitialize(c) ]
            /\ UNCHANGED << launches, handle >>
  /\ UNCHANGED << rankVars, driverVars, mrtVars, serviceVars, browser,
                  launched, got, closed, sigint >>

\* chromium.launch settles: the browser is assigned to this.browser, or the
\* launch throws and the caller's request is over
LaunchSettles(c) ==
  /\ ~Exited
  /\ bpc[c] \in { "initialize", "getBrowser" }
  /\ \E outcome \in { "browser", "throws" } :
       IF outcome = "browser"
         THEN /\ browser' = << handle[c] >>
              /\ launched' = launched \cup { handle[c] }
              /\ bpc' = [ bpc EXCEPT ![c] = IF bpc[c] = "initialize"
                                              THEN AfterInitialize(c)
                                              ELSE "return" ]
         ELSE /\ bpc' = [ bpc EXCEPT ![c] = "done" ]
              /\ UNCHANGED << browser, launched >>
  /\ handle' = [ handle EXCEPT ![c] = 0 ]
  /\ UNCHANGED << rankVars, driverVars, mrtVars, serviceVars, launches, got,
                  closed, sigint >>

\* browserManager.getBrowser(), called by createContext: with a browser it
\* returns it, without one it awaits initialize()
getBrowser(c) ==
  /\ ~Exited
  /\ bpc[c] = "createContext"
  /\ IF browser # << >>
       THEN /\ got' = [ got EXCEPT ![c] = << browser >> ]
            /\ bpc' = [ bpc EXCEPT ![c] = "done" ]
            /\ UNCHANGED << launches, handle >>
       ELSE Launch(c, "getBrowser") /\ got' = got
  /\ UNCHANGED << rankVars, driverVars, mrtVars, serviceVars, browser,
                  launched, closed, sigint >>

\* getBrowser() after its await: return this.browser!
GetBrowserReturns(c) ==
  /\ ~Exited
  /\ bpc[c] = "return"
  /\ got' = [ got EXCEPT ![c] = << browser >> ]
  /\ bpc' = [ bpc EXCEPT ![c] = "done" ]
  /\ UNCHANGED << rankVars, driverVars, mrtVars, serviceVars, browser,
                  launches, launched, handle, closed, sigint >>

\* the handler has replied, and the next request of its kind arrives
NextRequest(c) ==
  /\ ~Exited
  /\ c # "listen"
  /\ bpc[c] = "done"
  /\ bpc' = [ bpc EXCEPT ![c] = "idle" ]
  /\ got' = [ got EXCEPT ![c] = << >> ]
  /\ UNCHANGED << rankVars, driverVars, mrtVars, serviceVars, browser,
                  launches, launched, handle, closed, sigint >>

\* process.on('SIGINT'): browserManager.shutdown(), up to its await; the
\* handler runs once for each SIGINT, while the process has not exited
shutdown(s) ==
  /\ ~Exited
  /\ sigint[s] = "idle"
  /\ s > 1 => sigint[s - 1] # "idle"
  /\ IF browser # << >>
       THEN /\ closed' = Append(closed, browser[1])
            /\ sigint' = [ sigint EXCEPT ![s] = "closing" ]
       ELSE /\ closed' = closed
            /\ sigint' = [ sigint EXCEPT ![s] = "closed" ]
  /\ UNCHANGED << rankVars, driverVars, mrtVars, serviceVars, browser,
                  launches, launched, bpc, handle, got >>

\* shutdown() after its await: this.browser = null
CloseSettles(s) ==
  /\ ~Exited
  /\ sigint[s] = "closing"
  /\ browser' = << >>
  /\ sigint' = [ sigint EXCEPT ![s] = "closed" ]
  /\ UNCHANGED << rankVars, driverVars, mrtVars, serviceVars, launches,
                  launched, bpc, handle, got, closed >>

\* shutdown().then(() => process.exit(0))
Exit(s) ==
  /\ ~Exited
  /\ sigint[s] = "closed"
  /\ sigint' = [ sigint EXCEPT ![s] = "exited" ]
  /\ UNCHANGED << rankVars, driverVars, mrtVars, serviceVars, browser,
                  launches, launched, bpc, handle, got, closed >>

NextBrowser ==
  \/ \E c \in Callers : initialize(c)
  \/ \E c \in Callers : LaunchSettles(c)
  \/ \E c \in Callers : getBrowser(c)
  \/ \E c \in Callers : GetBrowserReturns(c)
  \/ \E c \in Callers : NextRequest(c)
  \/ \E s \in Signals : shutdown(s)
  \/ \E s \in Signals : CloseSettles(s)
  \/ \E s \in Signals : Exit(s)

SpecBrowser == Init /\ [][NextBrowser]_vars

(***************************************************************************)
(* The playwright adapter's reading of the reply.                          *)
(***************************************************************************)

\* playwrightResponseSchema: content is a string and pageStatusCode a number
playwrightResponseSchema(body) ==
  /\ "content" \in DOMAIN body
  /\ body.content # << >>
  /\ "pageStatusCode" \in DOMAIN body
  /\ body.pageStatusCode # << >>

\* robustFetch returns the body of a reply that is OK and fits the schema,
\* and throws otherwise
RobustFetchReturns(rep) ==
  rep.status = 200 /\ playwrightResponseSchema(rep.body)

(***************************************************************************)
(* Properties of the playwright microservice.                              *)
(***************************************************************************)

Replied == spc = "replied"

\* C23: a result scrape() returned has a pageError only with a status other
\* than 200, and one with a null status is not accepted by the adapter's
\* robustFetch call, so scrapeURLWithPlaywright does not return it.
C23_PageErrorOnlyOffStatus200 ==
  \A i \in 1..Len(reply) :
    reply[i].status = 200 =>
      /\ reply[i].body.pageError # << >> =>
           reply[i].body.pageStatusCode # << 200 >>
      /\ reply[i].body.pageStatusCode = << >> => ~RobustFetchReturns(reply[i])

\* a page without a response: null status, and an error message
C23_Witness ==
  /\ Replied
  /\ reply[1].status = 200
  /\ reply[1].body.pageStatusCode = << >>
  /\ reply[1].body.pageError # << >>
  /\ reply[1].body.content # << >>

\* C24: the time playwrightMaxReasonableTime gives is the request's waitFor,
\* 0 when the request has none, plus 30000: it is at least 30000, and between
\* any two requests it differs by as much as their waitFor does.
C24_WaitPlusFixedAllowance ==
  \A i \in 1..Len(mrt) :
    mrt[i].engine = "playwright" =>
      /\ mrt[i].returned = RequestedWait(mrt[i].meta) + 30000
      /\ mrt[i].returned >= 30000
      /\ \A m \in MRTRequests :
           getEngineMaxReasonableTime(m, "playwright", mrt[i].external)
             - mrt[i].returned
           = RequestedWait(m) - RequestedWait(mrt[i].meta)

C24_Witness ==
  /\ mrt # << >>
  /\ mrt[1].engine = "playwright"
  /\ "waitFor" \notin DOMAIN mrt[1].meta.options
  /\ mrt[1].returned = 30000

(***************************************************************************)
(* The gate of the index engines.                                          *)
(***************************************************************************)

IndexEngines == { "index", "index;documents" }

\* the request, or the environment, keeps the index out
IndexGated ==
  \/ indexWriteOnly
  \/ meta.options.waitFor # 0
  \/ (meta.options.headers # << >> /\ meta.options.headers[1] # {})
  \/ (meta.options.actions # << >> /\ meta.options.actions[1] # << >>)
  \/ meta.options.maxAge = 0
  \/ meta.options.proxy = "stealth"
  \/ "changeTracking" \in meta.options.formats
  \/ meta.options.pdfMaxPages # << >>

FetchError == "An error occurred while fetching the page."

\* the errors of the close calls
CloseErrors == { "page.close throws", "context.close throws" }

\* scrapePage returned under the strategy the call stands at
StrategySucceeded == result # << >> /\ result[1].content # << >>

\* the navigation attempts of a request: at most two, 'load' first, and
\* 'networkidle' only after strategy 1 threw
NavigationAttempts ==
  /\ Len(navigations) <= 2
  /\ \A i \in 1..Len(navigations) : navigations[i] = WaitUntil[i]
  /\ Len(navigations) = 2 => strategy = 2
  /\ (strategy = 2 /\ spc # "goto") => navigations = WaitUntil
  /\ (strategy = 1 /\ StrategySucceeded) => navigations = << "load" >>
  /\ thrown # << >> => (navigations = WaitUntil /\ strategy = 2)

C27_EverythingClosed ==
  Replied => (contextState # "open" /\ pageState # "open")

\* the request has no url, or an empty one
UrlMissing == params.url = << >> \/ params.url[1] = << >>

\* the request's url does not begin with a scheme, so it is not a URL
UrlWithoutScheme == ~UrlMissing /\ params.url[1][1] \notin Schemes

\* the error of a browser that cannot be launched, thrown before scrape()
LaunchError == "browserType.launch failed"

\* C28: a request without a url is answered with 400 'URL is required' and
\* one whose url is not a URL with 400 'Invalid URL' (unless the browser
\* could not be launched, and scrape() was not called), and at no moment of
\* such a request does a context or a page exist, or a navigation happen.
C28_UrlRejectedFirst ==
  (spc # "listening" /\ (UrlMissing \/ UrlWithoutScheme)) =>
    /\ contextState = "none" /\ pageState = "none"
    /\ navigations = << >> /\ executed = << >>
    /\ Replied =>
         /\ reply[1].status = 400
         /\ reply[1].body.error \in
              { IF UrlMissing THEN "URL is required" ELSE "Invalid URL",
                LaunchError }

\* a url without a scheme was rejected
C28_Witness ==
  /\ Replied
  /\ UrlWithoutScheme
  /\ reply[1] = [ status |-> 400, body |-> [ error |-> "Invalid URL" ] ]

\* the action types without a case in executeActions
UnimplementedActions == { "write", "press", "scroll", "scrape" }

\* what one strategy does with the action list: the actions are taken in list
\* order from the first, each once, until one throws; an action of an
\* unimplemented type is skipped and the next one follows
ActionsInOrder ==
  \A i \in 1..Len(executed) :
    LET e == executed[i]
    IN  /\ e.index \in 1..Len(params.actions[1])
        /\ e.type = params.actions[1][e.index]
        /\ e.type \in UnimplementedActions <=> e.outcome = "skipped"
        /\ IF i = 1 \/ executed[i - 1].strategy # e.strategy
             THEN e.index = 1
             ELSE /\ e.index = executed[i - 1].index + 1
                  /\ executed[i - 1].outcome # "threw"
        /\ i > 1 => executed[i - 1].strategy <= e.strategy
        /\ e.strategy \in 1..2

\* C29 as stated: the actions are executed in list order, and no action of
\* the list is executed twice in one request, the fallback strategy included.
C29_EachActionOnce ==
  /\ ActionsInOrder
  /\ \A i, j \in 1..Len(executed) :
       executed[i].index = executed[j].index => i = j

\* C29, amended: within one strategy the actions are executed in list order,
\* each at most once; the fallback strategy begins the list again, so in one
\* request an action is executed at most twice, once under each strategy.
C29_EachActionOncePerStrategy ==
  /\ ActionsInOrder
  /\ \A i, j \in 1..Len(executed) :
       (/\ executed[i].index = executed[j].index
        /\ executed[i].strategy = executed[j].strategy) => i = j
  /\ \A i \in 1..Len(executed) :
       executed[i].strategy = 2 => navigations = WaitUntil

\* an action done under strategy 1 was taken again under strategy 2, after
\* an action without a case was skipped
C29_Witness ==
  /\ Replied
  /\ \E i, j, k \in 1..Len(executed) :
       /\ executed[i].strategy = 1 /\ executed[i].outcome = "done"
       /\ executed[j].strategy = 2 /\ executed[j].index = executed[i].index
       /\ executed[k].outcome = "skipped"

(***************************************************************************)
(* Properties of the BrowserManager.                                       *)
(***************************************************************************)

\* shutdown() has not been called
NoShutdown == \A s \in Signals : sigint[s] = "idle"

\* the launches that are under way
InFlight == { handle[c] : c \in Callers } \ { 0 }

\* C30: before a shutdown, whatever the order in which the callers of
\* initialize() and getBrowser() take their steps, at most one launch is
\* under way or has given a browser, and the callers of getBrowser() all got
\* the same browser.
C30_OneBrowser ==
  NoShutdown =>
    /\ Cardinality(launched \cup InFlight) <= 1
    /\ \A c, d \in Callers :
         (got[c] # << >> /\ got[d] # << >>) => got[c] = got[d]

\* close() was called at most once on each browser
ClosedOnce ==
  \A i, j \in 1..Len(closed) : closed[i] = closed[j] => i = j

\* a step in which getBrowser() returns to c
Returns(c) == got'[c] # got[c] /\ got'[c] # << >>

\* what getBrowser() returns to c is a browser, and not one that shutdown()
\* has called close() on
ReturnsOpenBrowser(c) ==
  /\ got'[c][1] # << >>
  /\ got'[c][1][1] \notin Range(closed)

\* C31: whatever the order of the steps of getBrowser() and shutdown(),
\* getBrowser() never returns null or a browser that shutdown() has closed,
\* and the calls of shutdown(), one after the other or at the same time,
\* close no browser twice.
C31_OpenBrowserClosedOnce ==
  /\ []ClosedOnce
  /\ [][\A c \in Callers : Returns(c) => ReturnsOpenBrowser(c)]_vars

====
